---- MODULE Spec2Model ----
(***************************************************************************)
(* The eBPF packet-filtering pipeline of the repository:                   *)
(*   - ping-drop-ebpf: the XDP classifier ping_drop and its BLOCKLIST map   *)
(*   - ping-drop: the user-space control plane that loads and attaches it,  *)
(*     fills BLOCKLIST from --block and --ip-file and waits for Ctrl-C      *)
(*   - security_monitor-ebpf: the XDP classifier xdp_firewall and EVENTS    *)
(***************************************************************************)
EXTENDS Integers, Sequences, FiniteSets, TLC

(***************************************************************************)
(* Bounds of the model.                                                    *)
(***************************************************************************)
\* longest packet handed to a classifier, in bytes
MaxPktLen == 56
\* most comma-separated tokens in a --block argument
MaxTokens == 2
\* most lines in an --ip-file
MaxLines == 2
\* capacity of the BLOCKLIST map: with_max_entries(1024, 0) in the program,
\* scaled down so that the model reaches a full map
MaxEntries == 2
\* most packets and system calls security_monitor sees in a run
MaxEvents == 2
\* most lines security_monitor prints before its timer stops firing
MaxPrinted == 6

(***************************************************************************)
(* Program constants.                                                      *)
(***************************************************************************)
\* network_types::eth::EthHdr::LEN
EthHdr_LEN == 14
\* size_of::<Ipv4Hdr>() == Ipv4Hdr::LEN (no options)
Ipv4Hdr_LEN == 20
\* size_of::<TcpHdr>()
TcpHdr_LEN == 20
\* size_of::<UdpHdr>()
UdpHdr_LEN == 8
\* EtherType::Ipv4
EtherType_Ipv4 == 2048
\* IpProto::Icmp, IpProto::Tcp, IpProto::Udp
IpProto_Icmp == 1
IpProto_Tcp == 6
IpProto_Udp == 17
\* const LARGE_PACKET_THRESHOLD: u16 = 512 (declared, never used)
LARGE_PACKET_THRESHOLD == 512

XDP_ABORTED == "XDP_ABORTED"
XDP_DROP == "XDP_DROP"
XDP_PASS == "XDP_PASS"

\* Result<T, E>
Ok(v) == [ok |-> TRUE, val |-> v]
Err(e) == [ok |-> FALSE, val |-> e]

Range(s) == {s[i] : i \in 1..Len(s)}

(***************************************************************************)
(* Packets.  A packet is the buffer ctx.data()..ctx.data_end() of len      *)
(* bytes; the header fields are the bytes found at the fixed offsets.      *)
(* For a buffer shorter than a field's offset the field stands for the     *)
(* memory that follows the buffer, which may hold anything.                *)
(***************************************************************************)
\* (TLC's integers are 32-bit signed: the addresses are below 128.0.0.0;
\* Addr3 is Addr1 with its bytes reversed)
Addr1 == <<10, 0, 0, 1>>
Addr2 == <<10, 0, 0, 2>>
Addr3 == <<1, 0, 0, 10>>
Addrs == {Addr1, Addr2, Addr3}

EtherTypes == {EtherType_Ipv4, 2054, 0}
Protos == {IpProto_Icmp, IpProto_Tcp, IpProto_Udp, 47}
TotLens == {<<0, 84>>, <<3, 232>>}
Ports == {<<1, 187>>, <<0, 53>>}

Packets ==
  [len : 0..MaxPktLen, ether_type : EtherTypes, proto : Protos,
   src_addr : Addrs, tot_len : TotLens, source : Ports]

NoPkt == [len |-> -1]

\* HashMap insert with flags 0 (BPF_ANY): create or overwrite the entry of key
map_insert_noexist(m, key, value) ==
  [k \in DOMAIN m \cup {key} |-> IF k \in DOMAIN m THEN m[k] ELSE value]

map_insert(m, key, value) ==
  [k \in DOMAIN m \cup {key} |-> IF k = key THEN value ELSE m[k]]

EmptyMap == [k \in {} |-> 0]

\* u32::from_be_bytes([u8; 4])
u32_from_be_bytes(b) == b[1] * 16777216 + b[2] * 65536 + b[3] * 256 + b[4]
\* u16::from_be_bytes([u8; 2])
u16_from_be_bytes(b) == b[1] * 256 + b[2]

(***************************************************************************)
(* ptr_at::<T>(ctx, offset): the bounds check before every header read.    *)
(* start = 0, end = ctx.len, len = size_of::<T>().                         *)
(***************************************************************************)
ptr_at_nolen(ctx, offset, size) ==
  IF 0 + offset > ctx.len THEN Err(<<>>) ELSE Ok(<<offset, size>>)

ptr_at(ctx, offset, size) ==
  IF 0 + offset + size > ctx.len THEN Err(<<>>) ELSE Ok(<<offset, size>>)

\* (*ethhdr).ether_type() matched against Ok(EtherType::Ipv4)
is_not_arp(ctx) == ctx.ether_type # 2054

is_ipv4(ctx) == ctx.ether_type = EtherType_Ipv4

\* block_ip: BLOCKLIST.get(&address).is_some()
block_ip_is_none(address, bl) == address \notin DOMAIN bl

block_ip_value_nonzero(address, bl) == address \in DOMAIN bl /\ bl[address] # 0

block_ip(address, bl) == address \in DOMAIN bl

\* the verdict chosen at lines 98-118 of try_ping_drop
action_ignoring_protocol(blocked, protocol, total_len) ==
  IF blocked THEN XDP_DROP ELSE XDP_PASS

action_with_threshold(blocked, protocol, total_len) ==
  IF blocked
  THEN IF protocol = IpProto_Icmp THEN XDP_DROP ELSE XDP_PASS
  ELSE IF total_len > LARGE_PACKET_THRESHOLD THEN XDP_DROP ELSE XDP_PASS

ping_drop_action(blocked, protocol, total_len) ==
  IF blocked
  THEN IF protocol = IpProto_Icmp THEN XDP_DROP ELSE XDP_PASS
  ELSE XDP_PASS

\* what one run of a classifier did: its return value, the headers it
\* dereferenced (<<offset, size>> of each pointer ptr_at handed out and the
\* code read through) and the log records it emitted
Outcome(ret, rd, log) == [ret |-> ret, reads |-> rd, log |-> log]

\* try_ping_drop with the record written from the lookup alone, before the
\* protocol is looked at
try_ping_drop_logs_lookup(ctx, bl) ==
  LET ethhdr == ptr_at(ctx, 0, EthHdr_LEN) IN
  IF ~ethhdr.ok THEN Outcome(Err(<<>>), {}, <<>>)
  ELSE IF ~is_ipv4(ctx)
  THEN Outcome(Ok(XDP_PASS), {ethhdr.val}, <<>>)
  ELSE
    LET ipv4hdr == ptr_at(ctx, EthHdr_LEN, Ipv4Hdr_LEN) IN
    IF ~ipv4hdr.ok THEN Outcome(Err(<<>>), {ethhdr.val}, <<>>)
    ELSE
      LET source == u32_from_be_bytes(ctx.src_addr)
          protocol == ctx.proto
          total_len == u16_from_be_bytes(ctx.tot_len)
          action == ping_drop_action(block_ip(source, bl), protocol, total_len)
      IN Outcome(Ok(action), {ethhdr.val, ipv4hdr.val},
                 << [src |-> source, proto |-> protocol, len |-> total_len,
                     action |-> IF block_ip(source, bl) THEN XDP_DROP
                                ELSE XDP_PASS] >>)

try_ping_drop(ctx, bl) ==
  LET ethhdr == ptr_at(ctx, 0, EthHdr_LEN) IN
  IF ~ethhdr.ok THEN Outcome(Err(<<>>), {}, <<>>)
  ELSE IF ~is_ipv4(ctx)
  THEN Outcome(Ok(XDP_PASS), {ethhdr.val}, <<>>)
  ELSE
    LET ipv4hdr == ptr_at(ctx, EthHdr_LEN, Ipv4Hdr_LEN) IN
    IF ~ipv4hdr.ok THEN Outcome(Err(<<>>), {ethhdr.val}, <<>>)
    ELSE
      LET source == u32_from_be_bytes(ctx.src_addr)
          protocol == ctx.proto
          total_len == u16_from_be_bytes(ctx.tot_len)
          action == ping_drop_action(block_ip(source, bl), protocol, total_len)
      IN Outcome(Ok(action), {ethhdr.val, ipv4hdr.val},
                 << [src |-> source, proto |-> protocol,
                     len |-> total_len, action |-> action] >>)

\* the #[xdp] entry point: Err(_) => XDP_ABORTED
ping_drop_err_pass(ctx, bl) ==
  LET r == try_ping_drop(ctx, bl) IN
  [r EXCEPT !.ret = IF r.ret.ok THEN r.ret.val ELSE XDP_PASS]

ping_drop(ctx, bl) ==
  LET r == try_ping_drop(ctx, bl) IN
  [r EXCEPT !.ret = IF r.ret.ok THEN r.ret.val ELSE XDP_ABORTED]

(***************************************************************************)
(* security_monitor-ebpf: xdp_firewall and the EVENTS map.                 *)
(***************************************************************************)
EventData(t, one, two) == [event_type |-> t, data_one |-> one, data_two |-> two]

\* xdp_firewall also yields the EVENTS map it leaves
FwOutcome(ret, rd, log, ev) ==
  [ret |-> ret, reads |-> rd, log |-> log, events |-> ev]

\* try_xdp_firewall taking the two bytes behind the IPv4 header for a port
\* whatever the protocol
try_xdp_firewall_port_of_any(ctx, ev) ==
  LET ethhdr == ptr_at(ctx, 0, EthHdr_LEN) IN
  IF ~ethhdr.ok THEN FwOutcome(Err(<<>>), {}, <<>>, ev)
  ELSE IF ~is_ipv4(ctx)
  THEN FwOutcome(Ok(XDP_PASS), {ethhdr.val}, <<>>, ev)
  ELSE
    LET ipv4hdr == ptr_at(ctx, EthHdr_LEN, Ipv4Hdr_LEN) IN
    IF ~ipv4hdr.ok THEN FwOutcome(Err(<<>>), {ethhdr.val}, <<>>, ev)
    ELSE
      LET source_addr == u32_from_be_bytes(ctx.src_addr)
          hdrs == {ethhdr.val, ipv4hdr.val}
          l4 == IF ctx.proto = IpProto_Tcp
                THEN ptr_at(ctx, EthHdr_LEN + Ipv4Hdr_LEN, TcpHdr_LEN)
                ELSE IF ctx.proto = IpProto_Udp
                THEN ptr_at(ctx, EthHdr_LEN + Ipv4Hdr_LEN, UdpHdr_LEN)
                ELSE Ok(<<>>)
      IN
      IF ~l4.ok THEN FwOutcome(Err(<<>>), hdrs, <<>>, ev)
      ELSE
        LET l4read == ctx.proto \in {IpProto_Tcp, IpProto_Udp}
            source_port == u16_from_be_bytes(ctx.source)
        IN FwOutcome(Ok(XDP_PASS),
                   IF l4read THEN hdrs \cup {l4.val} ELSE hdrs,
                   << [src |-> source_addr, port |-> source_port] >>,
                   map_insert(ev, 1, EventData(1, source_addr, source_port)))

try_xdp_firewall(ctx, ev) ==
  LET ethhdr == ptr_at(ctx, 0, EthHdr_LEN) IN
  IF ~ethhdr.ok THEN FwOutcome(Err(<<>>), {}, <<>>, ev)
  ELSE IF ~is_ipv4(ctx)
  THEN FwOutcome(Ok(XDP_PASS), {ethhdr.val}, <<>>, ev)
  ELSE
    LET ipv4hdr == ptr_at(ctx, EthHdr_LEN, Ipv4Hdr_LEN) IN
    IF ~ipv4hdr.ok THEN FwOutcome(Err(<<>>), {ethhdr.val}, <<>>, ev)
    ELSE
      LET source_addr == u32_from_be_bytes(ctx.src_addr)
          hdrs == {ethhdr.val, ipv4hdr.val}
          l4 == IF ctx.proto = IpProto_Tcp
                THEN ptr_at(ctx, EthHdr_LEN + Ipv4Hdr_LEN, TcpHdr_LEN)
                ELSE IF ctx.proto = IpProto_Udp
                THEN ptr_at(ctx, EthHdr_LEN + Ipv4Hdr_LEN, UdpHdr_LEN)
                ELSE Ok(<<>>)
      IN
      IF ~l4.ok THEN FwOutcome(Err(<<>>), hdrs, <<>>, ev)
      ELSE
        LET l4read == ctx.proto \in {IpProto_Tcp, IpProto_Udp}
            source_port == IF l4read THEN u16_from_be_bytes(ctx.source) ELSE 0
        IN FwOutcome(Ok(XDP_PASS),
                   IF l4read THEN hdrs \cup {l4.val} ELSE hdrs,
                   << [src |-> source_addr, port |-> source_port] >>,
                   map_insert(ev, 1, EventData(1, source_addr, source_port)))

\* the #[xdp] entry point: Err(_) => XDP_PASS
xdp_firewall(ctx, ev) ==
  LET r == try_xdp_firewall(ctx, ev) IN
  [r EXCEPT !.ret = IF r.ret.ok THEN r.ret.val ELSE XDP_PASS]

(***************************************************************************)
(* ping-drop control plane: the text of --block and of the --ip-file.      *)
(* A string is a sequence of characters.                                   *)
(***************************************************************************)
\* Option<T>
None == [some |-> FALSE]
Some(v) == [some |-> TRUE, val |-> v]

S_A1 == <<"1", "0", ".", "0", ".", "0", ".", "1">>
S_A2 == <<"1", "0", ".", "0", ".", "0", ".", "2">>
\* 10.0.0.2 behind a form feed and before a space
S_A2_padded == <<"\f">> \o S_A2 \o <<" ">>
S_A3 == <<"1", ".", "0", ".", "0", ".", "1", "0">>
S_not_an_ip == <<"n", "o", "t", "-", "a", "n", "-", "i", "p">>
S_empty == <<>>
S_256 == <<"2", "5", "6", ".", "0", ".", "0", ".", "1">>
S_comment == <<" ", "#", "1", "0", ".", "0", ".", "0", ".", "2">>
S_blank == <<" ", " ">>
\* a line holding a byte that is not valid UTF-8
BadByte == "\\xFF"
S_bad_utf8 == <<"1", "0", ".", "0", ".", "0", ".", BadByte>>

BlockTokens == {S_A1, S_A2_padded, S_not_an_ip, S_empty}
FileLines == {S_A1, S_A3, S_comment, S_blank, S_256, S_bad_utf8}

SeqsUpTo(S, n) == UNION {[1..k -> S] : k \in 0..n}

RECURSIVE join(_, _)
join(parts, sep) ==
  IF Len(parts) = 1 THEN parts[1]
  ELSE parts[1] \o <<sep>> \o join(Tail(parts), sep)

\* the --block arguments: one to MaxTokens tokens joined by commas, and
\* "10.0.0.1,not-an-ip,10.0.0.2" and "10.0.0.1,10.0.0.2,1.0.0.10"
BlockTokenLists ==
  (SeqsUpTo(BlockTokens, MaxTokens) \ {<<>>})
    \cup {<<S_A1, S_not_an_ip, S_A2>>, <<S_A1, S_A2, S_A3>>}
BlockArgs == {join(ts, ",") : ts \in BlockTokenLists}

\* the files: no file at the path, or up to MaxLines lines
NoSuchFile == [exists |-> FALSE]
NotOpened == [exists |-> FALSE, opened |-> FALSE]
Files == {NoSuchFile} \cup {[exists |-> TRUE, content |-> ls] : ls \in SeqsUpTo(FileLines, MaxLines)}

\* str::split(sep): the pieces between the separators (at least one piece)
RECURSIVE split(_, _)
split(s, sep) ==
  IF \A i \in 1..Len(s) : s[i] # sep THEN <<s>>
  ELSE LET i == CHOOSE i \in 1..Len(s) :
                  s[i] = sep /\ \A j \in 1..(i - 1) : s[j] # sep
       IN <<SubSeq(s, 1, i - 1)>> \o split(SubSeq(s, i + 1, Len(s)), sep)

\* char::is_whitespace: the characters with the Unicode property White_Space.
\* U+0009..U+000D, U+0020, U+0085, U+00A0 and U+1680 stand as themselves;
\* those a string of this module cannot hold are written by their code point
WhiteSpace ==
  {"\t", "\n", "", "\f", "\r", " ", "", " ", " ",
   "U+2000", "U+2001", "U+2002", "U+2003", "U+2004", "U+2005", "U+2006",
   "U+2007", "U+2008", "U+2009", "U+200A", "U+2028", "U+2029", "U+202F",
   "U+205F", "U+3000"}

is_whitespace(c) == c \in WhiteSpace

\* str::trim(): without leading and trailing whitespace
RECURSIVE trim_start(_)
trim_start(s) ==
  IF s # <<>> /\ is_whitespace(Head(s)) THEN trim_start(Tail(s)) ELSE s

RECURSIVE trim_end(_)
trim_end(s) ==
  IF s # <<>> /\ is_whitespace(s[Len(s)])
  THEN trim_end(SubSeq(s, 1, Len(s) - 1)) ELSE s

trim(s) == trim_end(trim_start(s))

Digits == <<"0", "1", "2", "3", "4", "5", "6", "7", "8", "9">>
is_digit(c) == c \in Range(Digits)
digit(c) == (CHOOSE i \in 1..10 : Digits[i] = c) - 1

RECURSIVE number(_)
number(s) == IF s = <<>> THEN 0
             ELSE number(SubSeq(s, 1, Len(s) - 1)) * 10 + digit(s[Len(s)])

\* one octet of a dotted quad: 1 to 3 decimal digits, no leading zero, <= 255
octet_ok(s) ==
  /\ Len(s) \in 1..3
  /\ \A i \in 1..Len(s) : is_digit(s[i])
  /\ (Len(s) > 1 => s[1] # "0")
  /\ number(s) <= 255

\* str::parse::<Ipv4Addr>(): exactly four octets separated by '.'
parse_Ipv4Addr(s) ==
  LET parts == split(s, ".") IN
  IF Len(parts) = 4 /\ \A i \in 1..4 : octet_ok(parts[i])
  THEN Ok(<<number(parts[1]), number(parts[2]), number(parts[3]), number(parts[4])>>)
  ELSE Err("AddrParseError")

\* u32::from(Ipv4Addr): the four octets, most significant first
Ipv4Addr_into_u32_le(ip) == ((ip[4] * 256 + ip[3]) * 256 + ip[2]) * 256 + ip[1]

Ipv4Addr_into_u32(ip) == ((ip[1] * 256 + ip[2]) * 256 + ip[3]) * 256 + ip[4]

\* BufRead::lines(): the next line, or an error when it is not valid UTF-8
read_line(l) == IF BadByte \in Range(l) THEN Err("InvalidData") ELSE Ok(l)

\* the update with BPF_NOEXIST in place of flags 0: a key the map holds is refused
blocklist_insert_noexist(bl, key, value) ==
  IF key \in DOMAIN bl \/ Cardinality(DOMAIN bl) >= MaxEntries
  THEN Err("MapError")
  ELSE Ok(map_insert(bl, key, value))

\* a map that makes room for a new key by evicting one it holds (an LRU map)
blocklist_insert_evicting(bl, key, value) ==
  IF key \notin DOMAIN bl /\ Cardinality(DOMAIN bl) >= MaxEntries
  THEN LET old == CHOOSE k \in DOMAIN bl : TRUE IN
       Ok([k \in (DOMAIN bl \ {old}) \cup {key} |-> IF k = key THEN value ELSE bl[k]])
  ELSE Ok(map_insert(bl, key, value))

\* blocklist.insert(key, value, 0): the bpf() update of a preallocated hash
\* map; the kernel refuses a new key when the map holds max_entries keys
\* and overwrites the value of a key it holds
blocklist_insert(bl, key, value) ==
  IF key \notin DOMAIN bl /\ Cardinality(DOMAIN bl) >= MaxEntries
  THEN Err("MapError")
  ELSE Ok(map_insert(bl, key, value))

\* no SIGINT handler installed, no signal::ctrl_c() future alive
NoCtrlC == [handler |-> FALSE, listener |-> "none"]

(***************************************************************************)
(* State.                                                                  *)
(***************************************************************************)
VARIABLES
  prog,         \* the XDP program of this deployment: "ping_drop" | "xdp_firewall"
  BLOCKLIST,    \* the BLOCKLIST map: key (u32 address) -> value
  EVENTS,       \* the EVENTS map: key (event type) -> EventData
  pkt,          \* the packet of the latest classification, NoPkt before the first
  verdict,      \* the xdp_action it returned
  reads,        \* the headers it dereferenced, as <<offset, size>>
  logrec,       \* the log records it emitted
  pc,           \* where main() of the ping-drop control plane stands
  opt_block,    \* Opt::block: None or Some(the --block argument)
  opt_ip_file,  \* Opt::ip_file: None or Some(path)
  tokens,       \* what list.split(',') has still to yield
  file,         \* the file found at the path when File::open ran
  lines,        \* what reader.lines() has still to yield
  warnings,     \* the warn! records written so far
  stdout,       \* the println! lines written so far
  drain,        \* the spawned log-drain task: "none" | "running" | "panicked"
  attached,     \* whether ping_drop is attached to the interface
  sigint,       \* SIGINT: "none" | "default_action" | "handled"
  errs,         \* the errors the environment has answered with so far
  fatal,        \* the error main() returned with, "none" otherwise
  exit_status,  \* "running" | "exit_0" | "exit_1" | "killed"
  ctrl_c,       \* tokio's SIGINT handling as security_monitor uses it: whether
                \* the handler is installed, and the listener of the
                \* signal::ctrl_c() future of this loop iteration
  history       \* the events that occurred so far, in order (history variable)

dp_vars == <<prog, BLOCKLIST, EVENTS, pkt, verdict, reads, logrec>>

cp_vars == <<pc, opt_block, opt_ip_file, tokens, file, lines, warnings, stdout,
             drain, attached, sigint, errs, fatal, exit_status>>

mon_vars == <<ctrl_c, history>>

vars == <<dp_vars, cp_vars, mon_vars>>

(***************************************************************************)
(* The classifiers on the receive path.                                    *)
(***************************************************************************)
\* every Blocklist the control plane can install: up to MaxEntries keys,
\* each with value 1
Blocklists ==
  UNION {[K -> {1}] : K \in {K \in SUBSET {u32_from_be_bytes(a) : a \in Addrs} :
                                Cardinality(K) <= MaxEntries}}

InitClassifier ==
  /\ prog \in {"ping_drop", "xdp_firewall"}
  /\ BLOCKLIST \in (IF prog = "ping_drop" THEN Blocklists ELSE {EmptyMap})
  /\ EVENTS = EmptyMap
  /\ pkt = NoPkt
  /\ verdict = "none"
  /\ reads = {}
  /\ logrec = <<>>
  \* the control plane has started up and waits for Ctrl-C
  /\ pc = "wait"
  /\ opt_block = None
  /\ opt_ip_file = None
  /\ tokens = <<>>
  /\ file = NotOpened
  /\ lines = <<>>
  /\ warnings = <<>>
  /\ stdout = <<"Waiting for Ctrl-C...">>
  /\ drain = "running"
  /\ attached = TRUE
  /\ sigint = "none"
  /\ errs = {}
  /\ fatal = "none"
  /\ exit_status = "running"
  /\ ctrl_c = NoCtrlC
  /\ history = <<>>

\* the kernel runs ping_drop on one ingress packet
PingDrop_needs_logger(p) ==
  /\ LET r == ping_drop(p, BLOCKLIST) IN
       /\ pkt' = p
       /\ verdict' = IF drain = "none" THEN XDP_ABORTED ELSE r.ret
       /\ reads' = r.reads
       /\ logrec' = r.log
  /\ UNCHANGED <<prog, BLOCKLIST, EVENTS, cp_vars>>
  /\ UNCHANGED mon_vars

PingDrop(p) ==
  /\ LET r == ping_drop(p, BLOCKLIST) IN
       /\ pkt' = p
       /\ verdict' = r.ret
       /\ reads' = r.reads
       /\ logrec' = r.log
  /\ UNCHANGED <<prog, BLOCKLIST, EVENTS, cp_vars>>
  /\ UNCHANGED mon_vars

\* the kernel runs xdp_firewall on one ingress packet
XdpFirewall(p) ==
  /\ LET r == xdp_firewall(p, EVENTS) IN
       /\ pkt' = p
       /\ verdict' = r.ret
       /\ reads' = r.reads
       /\ logrec' = r.log
       /\ EVENTS' = r.events
  /\ UNCHANGED <<prog, BLOCKLIST, cp_vars>>
  /\ UNCHANGED ctrl_c

\* the program has returned: the network stack acts on the verdict and the
\* XdpContext of that packet is gone
Returned ==
  /\ pkt # NoPkt
  /\ pkt' = NoPkt
  /\ verdict' = "none"
  /\ reads' = {}
  /\ logrec' = <<>>
  /\ UNCHANGED <<prog, BLOCKLIST, EVENTS, cp_vars>>
  /\ UNCHANGED mon_vars

NextClassifier ==
  \/ /\ prog = "ping_drop" /\ pkt = NoPkt
     /\ \E p \in Packets : PingDrop(p)
  \/ /\ prog = "xdp_firewall" /\ pkt = NoPkt
     /\ \E p \in Packets : XdpFirewall(p) /\ UNCHANGED history
  \/ Returned

SpecClassifier == InitClassifier /\ [][NextClassifier]_vars

\* ping_drop over every content of the BLOCKLIST map, whoever wrote it: up to
\* MaxEntries keys, each with any of these u32 values
MapValues == {0, 1, 255}
AnyBlocklists ==
  UNION {[K -> MapValues] : K \in {K \in SUBSET {u32_from_be_bytes(a) : a \in Addrs} :
                                     Cardinality(K) <= MaxEntries}}

InitLookup ==
  /\ prog = "ping_drop"
  /\ BLOCKLIST \in AnyBlocklists
  /\ EVENTS = EmptyMap
  /\ pkt = NoPkt
  /\ verdict = "none"
  /\ reads = {}
  /\ logrec = <<>>
  /\ pc = "wait"
  /\ opt_block = None
  /\ opt_ip_file = None
  /\ tokens = <<>>
  /\ file = NotOpened
  /\ lines = <<>>
  /\ warnings = <<>>
  /\ stdout = <<"Waiting for Ctrl-C...">>
  \* the drain task was never spawned, runs, or has panicked
  /\ drain \in {"none", "running", "panicked"}
  /\ attached = TRUE
  /\ sigint = "none"
  /\ errs = {}
  /\ fatal = "none"
  /\ exit_status = "running"
  /\ ctrl_c = NoCtrlC
  /\ history = <<>>

NextLookup ==
  \/ /\ pkt = NoPkt
     /\ \E p \in Packets : PingDrop(p)
  \/ Returned

SpecLookup == InitLookup /\ [][NextLookup]_vars

(***************************************************************************)
(* ping-drop control plane: main().                                        *)
(***************************************************************************)
\* what handling one entry did: the Blocklist it leaves, the warning it
\* wrote (none or one), the error it returns with ("none" otherwise)
Handled(bl, warn, err) == [bl |-> bl, warn |-> warn, err |-> err]

\* match trimmed.parse::<Ipv4Addr>() { Ok(ip) => insert(key, 1, 0)?, Err(_) => warn! }
load_entry_value_0(trimmed, bl, from) ==
  LET parsed == parse_Ipv4Addr(trimmed) IN
  IF parsed.ok
  THEN LET ins == blocklist_insert(bl, Ipv4Addr_into_u32(parsed.val), 0) IN
       IF ins.ok THEN Handled(ins.val, <<>>, "none")
       ELSE Handled(bl, <<>>, "insert")
  ELSE Handled(bl, <<[from |-> from, text |-> trimmed]>>, "none")

\* a failing insert handled like an invalid address: warn! and go on
load_entry_skip_full(trimmed, bl, from) ==
  LET parsed == parse_Ipv4Addr(trimmed) IN
  IF parsed.ok
  THEN LET ins == blocklist_insert(bl, Ipv4Addr_into_u32(parsed.val), 1) IN
       IF ins.ok THEN Handled(ins.val, <<>>, "none")
       ELSE Handled(bl, <<[from |-> from, text |-> trimmed]>>, "none")
  ELSE Handled(bl, <<[from |-> from, text |-> trimmed]>>, "none")

load_entry(trimmed, bl, from) ==
  LET parsed == parse_Ipv4Addr(trimmed) IN
  IF parsed.ok
  THEN LET ins == blocklist_insert(bl, Ipv4Addr_into_u32(parsed.val), 1) IN
       IF ins.ok THEN Handled(ins.val, <<>>, "none")
       ELSE Handled(bl, <<>>, "insert")
  ELSE Handled(bl, <<[from |-> from, text |-> trimmed]>>, "none")

\* one iteration of: for ip_str in list.split(',')
block_token_untrimmed(ip_str, bl) ==
  IF ip_str = <<>> THEN Handled(bl, <<>>, "none")
  ELSE load_entry(ip_str, bl, "--block")

block_token(ip_str, bl) ==
  LET trimmed == trim(ip_str) IN
  IF trimmed = <<>> THEN Handled(bl, <<>>, "none")
  ELSE load_entry(trimmed, bl, "--block")

\* one iteration of: for line in reader.lines()
file_line(l, bl) ==
  LET line == read_line(l) IN
  IF ~line.ok THEN Handled(bl, <<>>, "read")
  ELSE LET trimmed == trim(line.val) IN
       IF trimmed = <<>> \/ Head(trimmed) = "#" THEN Handled(bl, <<>>, "none")
       ELSE load_entry(trimmed, bl, "file")

InitControl ==
  /\ prog = "ping_drop"
  /\ BLOCKLIST = EmptyMap
  /\ EVENTS = EmptyMap
  /\ pkt = NoPkt
  /\ verdict = "none"
  /\ reads = {}
  /\ logrec = <<>>
  /\ pc = "load"
  /\ opt_block \in {None} \cup {Some(a) : a \in BlockArgs}
  /\ opt_ip_file \in {None, Some("blocklist.txt")}
  /\ tokens = <<>>
  /\ file = NotOpened
  /\ lines = <<>>
  /\ warnings = <<>>
  /\ stdout = <<>>
  /\ drain = "none"
  /\ attached = FALSE
  /\ sigint = "none"
  /\ errs = {}
  /\ fatal = "none"
  /\ exit_status = "running"
  /\ ctrl_c = NoCtrlC
  /\ history = <<>>

\* main() returns Err(cause): the process exits with status 1 and the
\* program is detached with it
ReturnErr(cause) ==
  /\ pc' = "done"
  /\ errs' = errs \cup {cause}
  /\ fatal' = cause
  /\ exit_status' = "exit_1"
  /\ attached' = FALSE

\* aya::Ebpf::load(...)?
Load ==
  /\ pc = "load"
  /\ \E ok \in BOOLEAN :
       IF ok THEN /\ pc' = "logger"
                  /\ UNCHANGED <<errs, fatal, exit_status, attached>>
       ELSE ReturnErr("load")
  /\ UNCHANGED <<dp_vars, opt_block, opt_ip_file, tokens, file, lines,
                 warnings, stdout, drain, sigint>>
  /\ UNCHANGED mon_vars

\* match EbpfLogger::init(&mut ebpf): Err => warn!, Ok => AsyncFd::with_interest(..)?
\* and tokio::task::spawn of the drain loop
LoggerInit_fatal ==
  /\ pc = "logger"
  /\ \E r \in {"ok", "logger_init", "asyncfd"} :
       IF r = "ok"
       THEN /\ pc' = "attach" /\ drain' = "running"
            /\ UNCHANGED <<warnings, errs, fatal, exit_status, attached>>
       ELSE /\ ReturnErr(r)
            /\ UNCHANGED <<warnings, drain>>
  /\ UNCHANGED <<dp_vars, opt_block, opt_ip_file, tokens, file, lines,
                 stdout, sigint>>
  /\ UNCHANGED mon_vars

LoggerInit ==
  /\ pc = "logger"
  /\ \E r \in {"ok", "logger_init", "asyncfd"} :
       CASE r = "ok" ->
              /\ pc' = "attach" /\ drain' = "running"
              /\ UNCHANGED <<warnings, errs, fatal, exit_status, attached>>
         [] r = "logger_init" ->
              /\ pc' = "attach"
              /\ warnings' = Append(warnings, [from |-> "logger", text |-> <<>>])
              /\ errs' = errs \cup {"logger_init"}
              /\ UNCHANGED <<drain, fatal, exit_status, attached>>
         [] r = "asyncfd" ->
              /\ ReturnErr("asyncfd")
              /\ UNCHANGED <<warnings, drain>>
  /\ UNCHANGED <<dp_vars, opt_block, opt_ip_file, tokens, file, lines,
                 stdout, sigint>>
  /\ UNCHANGED mon_vars

\* program.load()?; program.attach(&opt.iface, XdpFlags::default()).context(..)?
\* (then the BLOCKLIST handle, which an object holding that map always gives)
Attach_deferred ==
  /\ pc = "attach"
  /\ \E r \in {"ok", "prog_load", "attach"} :
       IF r = "ok" THEN /\ pc' = "block"
                        /\ UNCHANGED <<attached, errs, fatal, exit_status>>
       ELSE ReturnErr(r)
  /\ UNCHANGED <<dp_vars, opt_block, opt_ip_file, tokens, file, lines,
                 warnings, stdout, drain, sigint>>
  /\ UNCHANGED mon_vars

Attach ==
  /\ pc = "attach"
  /\ \E r \in {"ok", "prog_load", "attach"} :
       IF r = "ok" THEN /\ pc' = "block" /\ attached' = TRUE
                        /\ UNCHANGED <<errs, fatal, exit_status>>
       ELSE ReturnErr(r)
  /\ UNCHANGED <<dp_vars, opt_block, opt_ip_file, tokens, file, lines,
                 warnings, stdout, drain, sigint>>
  /\ UNCHANGED mon_vars

\* if let Some(list) = opt.block { for ip_str in list.split(',') ...
BlockSplit ==
  /\ pc = "block"
  /\ IF opt_block.some
     THEN /\ tokens' = split(opt_block.val, ",") /\ pc' = "block_loop"
     ELSE /\ tokens' = <<>> /\ pc' = "file"
  /\ UNCHANGED <<dp_vars, opt_block, opt_ip_file, file, lines, warnings,
                 stdout, drain, attached, sigint, errs, fatal, exit_status>>
  /\ UNCHANGED mon_vars

\* one token of --block; after the last one the loop ends
BlockToken ==
  /\ pc = "block_loop"
  /\ LET r == block_token(Head(tokens), BLOCKLIST) IN
       /\ BLOCKLIST' = r.bl
       /\ warnings' = warnings \o r.warn
       /\ IF r.err = "none"
          THEN /\ tokens' = Tail(tokens)
               /\ pc' = IF Tail(tokens) = <<>> THEN "file" ELSE "block_loop"
               /\ UNCHANGED <<errs, fatal, exit_status, attached>>
          ELSE /\ ReturnErr("block_insert")
               /\ UNCHANGED tokens
  /\ UNCHANGED <<prog, EVENTS, pkt, verdict, reads, logrec, opt_block,
                 opt_ip_file, file, lines, stdout, drain, sigint>>
  /\ UNCHANGED mon_vars

\* if let Some(path) = opt.ip_file { File::open(&path).with_context(..)?
FileOpen_warn ==
  /\ pc = "file"
  /\ IF opt_ip_file.some
     THEN \E f \in Files :
            /\ file' = f
            /\ IF f.exists
               THEN /\ lines' = f.content
                    /\ pc' = IF f.content = <<>> THEN "ctrl_c" ELSE "file_loop"
                    /\ UNCHANGED <<errs, warnings>>
               ELSE /\ pc' = "ctrl_c"
                    /\ errs' = errs \cup {"file_open"}
                    /\ warnings' = Append(warnings, [from |-> "open", text |-> <<>>])
                    /\ UNCHANGED lines
     ELSE /\ pc' = "ctrl_c"
          /\ UNCHANGED <<file, lines, errs, warnings>>
  /\ UNCHANGED <<dp_vars, opt_block, opt_ip_file, tokens, stdout,
                 drain, sigint, fatal, exit_status, attached>>
  /\ UNCHANGED mon_vars

FileOpen ==
  /\ pc = "file"
  /\ IF opt_ip_file.some
     THEN \E f \in Files :
            /\ file' = f
            /\ IF f.exists
               THEN /\ lines' = f.content
                    /\ pc' = IF f.content = <<>> THEN "ctrl_c" ELSE "file_loop"
                    /\ UNCHANGED <<errs, fatal, exit_status, attached>>
               ELSE /\ ReturnErr("file_open")
                    /\ UNCHANGED lines
     ELSE /\ pc' = "ctrl_c"
          /\ UNCHANGED <<file, lines, errs, fatal, exit_status, attached>>
  /\ UNCHANGED <<dp_vars, opt_block, opt_ip_file, tokens, warnings, stdout,
                 drain, sigint>>
  /\ UNCHANGED mon_vars

\* one line of the file; after the last one the loop ends
FileLine_break ==
  /\ pc = "file_loop"
  /\ LET r == file_line(Head(lines), BLOCKLIST) IN
       /\ BLOCKLIST' = r.bl
       /\ warnings' = warnings \o r.warn
       /\ IF r.err = "none"
          THEN /\ lines' = IF r.warn = <<>> THEN Tail(lines) ELSE <<>>
               /\ pc' = IF lines' = <<>> THEN "ctrl_c" ELSE "file_loop"
               /\ UNCHANGED <<errs, fatal, exit_status, attached>>
          ELSE /\ ReturnErr(IF r.err = "read" THEN "file_read" ELSE "file_insert")
               /\ UNCHANGED lines
  /\ UNCHANGED <<prog, EVENTS, pkt, verdict, reads, logrec, opt_block,
                 opt_ip_file, tokens, file, stdout, drain, sigint>>
  /\ UNCHANGED mon_vars

FileLine ==
  /\ pc = "file_loop"
  /\ LET r == file_line(Head(lines), BLOCKLIST) IN
       /\ BLOCKLIST' = r.bl
       /\ warnings' = warnings \o r.warn
       /\ IF r.err = "none"
          THEN /\ lines' = Tail(lines)
               /\ pc' = IF Tail(lines) = <<>> THEN "ctrl_c" ELSE "file_loop"
               /\ UNCHANGED <<errs, fatal, exit_status, attached>>
          ELSE /\ ReturnErr(IF r.err = "read" THEN "file_read" ELSE "file_insert")
               /\ UNCHANGED lines
  /\ UNCHANGED <<prog, EVENTS, pkt, verdict, reads, logrec, opt_block,
                 opt_ip_file, tokens, file, stdout, drain, sigint>>
  /\ UNCHANGED mon_vars

\* let ctrl_c = signal::ctrl_c(); println!("Waiting for Ctrl-C...");
Waiting ==
  /\ pc = "ctrl_c"
  /\ pc' = "await"
  /\ stdout' = Append(stdout, "Waiting for Ctrl-C...")
  /\ UNCHANGED <<dp_vars, opt_block, opt_ip_file, tokens, file, lines,
                 warnings, drain, attached, sigint, errs, fatal, exit_status>>
  /\ UNCHANGED mon_vars

\* ctrl_c.await?: the first poll installs the SIGINT handler, or fails
CtrlCAwait ==
  /\ pc = "await"
  /\ \E ok \in BOOLEAN :
       IF ok THEN /\ pc' = "wait"
                  /\ UNCHANGED <<errs, fatal, exit_status, attached>>
       ELSE ReturnErr("signal")
  /\ UNCHANGED <<dp_vars, opt_block, opt_ip_file, tokens, file, lines,
                 warnings, stdout, drain, sigint>>
  /\ UNCHANGED mon_vars

\* SIGINT arrives while the handler of ctrl_c is installed
Sigint ==
  /\ pc = "wait"
  /\ sigint = "none"
  /\ sigint' = "handled"
  /\ UNCHANGED <<dp_vars, pc, opt_block, opt_ip_file, tokens, file, lines,
                 warnings, stdout, drain, attached, errs, fatal, exit_status>>
  /\ UNCHANGED mon_vars

\* ctrl_c.await resolves; println!("Exiting..."); Ok(())
CtrlC ==
  /\ pc = "wait"
  /\ sigint = "handled"
  /\ stdout' = Append(stdout, "Exiting...")
  /\ pc' = "done"
  /\ exit_status' = "exit_0"
  /\ attached' = FALSE
  /\ UNCHANGED <<dp_vars, opt_block, opt_ip_file, tokens, file, lines,
                 warnings, drain, sigint, errs, fatal>>
  /\ UNCHANGED mon_vars

\* SIGINT before the handler is installed: the default action ends the process
Interrupted ==
  /\ exit_status = "running"
  /\ pc # "wait"
  /\ sigint' = "default_action"
  /\ pc' = "done"
  /\ exit_status' = "killed"
  /\ attached' = FALSE
  /\ UNCHANGED <<dp_vars, opt_block, opt_ip_file, tokens, file, lines,
                 warnings, stdout, drain, errs, fatal>>
  /\ UNCHANGED mon_vars

\* the drain task: logger.readable_mut().await.unwrap() meets an error and
\* the task panics; the other tasks go on
DrainError ==
  /\ exit_status = "running"
  /\ drain = "running"
  /\ drain' = "panicked"
  /\ errs' = errs \cup {"log_channel"}
  /\ UNCHANGED <<dp_vars, pc, opt_block, opt_ip_file, tokens, file, lines,
                 warnings, stdout, attached, sigint, fatal, exit_status>>
  /\ UNCHANGED mon_vars

NextControl ==
  \/ Load
  \/ LoggerInit
  \/ Attach
  \/ BlockSplit
  \/ BlockToken
  \/ FileOpen
  \/ FileLine
  \/ Waiting
  \/ CtrlCAwait
  \/ Sigint
  \/ CtrlC
  \/ Interrupted
  \/ DrainError

SpecControl == InitControl /\ [][NextControl]_vars

\* the main task is scheduled: once ctrl_c has resolved, main() goes on
SpecControlLive == SpecControl /\ WF_vars(CtrlC)

(***************************************************************************)
(* ping-drop as a whole: main() and, from the attach on, ping_drop on the  *)
(* packets that arrive while it runs.                                      *)
(***************************************************************************)
\* the packets that arrive: a complete ICMP packet from each address, and
\* from 10.0.0.1 also a complete TCP packet and an ICMP packet one byte
\* short of the IPv4 header
SystemPackets ==
  [len : {EthHdr_LEN + Ipv4Hdr_LEN},
   ether_type : {EtherType_Ipv4},
   proto : {IpProto_Icmp},
   src_addr : Addrs,
   tot_len : {<<0, 84>>},
   source : {<<0, 53>>}]
  \cup
  [len : {EthHdr_LEN + Ipv4Hdr_LEN},
   ether_type : {EtherType_Ipv4},
   proto : {IpProto_Tcp},
   src_addr : {Addr1},
   tot_len : {<<0, 84>>},
   source : {<<0, 53>>}]
  \cup
  [len : {EthHdr_LEN + Ipv4Hdr_LEN - 1},
   ether_type : {EtherType_Ipv4},
   proto : {IpProto_Icmp},
   src_addr : {Addr1},
   tot_len : {<<0, 84>>},
   source : {<<0, 53>>}]

\* the kernel runs ping_drop on another CPU: main() takes its steps whether
\* or not a classification has returned
NextSystem ==
  \/ NextControl
  \/ /\ attached /\ pkt = NoPkt
     /\ \E p \in SystemPackets : PingDrop(p)
  \/ Returned

SpecSystem == InitControl /\ [][NextSystem]_vars

(***************************************************************************)
(* ping-drop with the classifier running beside main(): the kernel runs    *)
(* ping_drop on the CPU that received the packet while main() populates    *)
(* the Blocklist on another.  A classification starts when the program is  *)
(* entered with the packet, makes its one access to shared memory          *)
(* (BLOCKLIST.get) on its way through try_ping_drop, and ends when it has  *)
(* returned; main() takes its steps in between.  history holds the start   *)
(* of the classification in flight: the packet and the Blocklist as they   *)
(* were then.                                                              *)
(***************************************************************************)
\* complete ICMP packets from 10.0.0.1 and 1.0.0.10, and from 10.0.0.1 also
\* TCP and a packet one byte short of the IPv4 header
ConcurrentPackets ==
  [len : {EthHdr_LEN + Ipv4Hdr_LEN},
   ether_type : {EtherType_Ipv4},
   proto : {IpProto_Icmp},
   src_addr : {Addr1, Addr3},
   tot_len : {<<0, 84>>},
   source : {<<0, 53>>}]
  \cup
  [len : {EthHdr_LEN + Ipv4Hdr_LEN - 1, EthHdr_LEN + Ipv4Hdr_LEN},
   ether_type : {EtherType_Ipv4},
   proto : {IpProto_Tcp},
   src_addr : {Addr1},
   tot_len : {<<0, 84>>},
   source : {<<0, 53>>}]

\* pub fn ping_drop(ctx: XdpContext): the program is entered with the packet
PingDropEnter(p) ==
  /\ attached /\ pkt = NoPkt
  /\ pkt' = p
  /\ history' = <<[pkt |-> p, bl |-> BLOCKLIST]>>
  /\ UNCHANGED <<prog, BLOCKLIST, EVENTS, verdict, reads, logrec, cp_vars>>
  /\ UNCHANGED ctrl_c

\* try_ping_drop(ctx) runs from its first line to its result
PingDropRun_at_attach ==
  /\ pkt # NoPkt /\ verdict = "none"
  /\ LET r == ping_drop(pkt, EmptyMap) IN
       /\ verdict' = r.ret
       /\ reads' = r.reads
       /\ logrec' = r.log
  /\ UNCHANGED <<prog, BLOCKLIST, EVENTS, pkt, cp_vars>>
  /\ UNCHANGED mon_vars

PingDropRun_counting ==
  /\ pkt # NoPkt /\ verdict = "none"
  /\ LET r == ping_drop(pkt, BLOCKLIST)
         source == u32_from_be_bytes(pkt.src_addr) IN
       /\ verdict' = r.ret
       /\ reads' = r.reads
       /\ logrec' = r.log
       /\ BLOCKLIST' = IF r.ret = XDP_DROP
                       THEN map_insert(BLOCKLIST, source, BLOCKLIST[source] + 1)
                       ELSE BLOCKLIST
  /\ UNCHANGED <<prog, EVENTS, pkt, cp_vars>>
  /\ UNCHANGED mon_vars

PingDropRun ==
  /\ pkt # NoPkt /\ verdict = "none"
  /\ LET r == ping_drop(pkt, BLOCKLIST) IN
       /\ verdict' = r.ret
       /\ reads' = r.reads
       /\ logrec' = r.log
  /\ UNCHANGED <<prog, BLOCKLIST, EVENTS, pkt, cp_vars>>
  /\ UNCHANGED mon_vars

\* the program has returned its verdict: the classification has ended
PingDropReturn ==
  /\ pkt # NoPkt /\ verdict # "none"
  /\ pkt' = NoPkt
  /\ verdict' = "none"
  /\ reads' = {}
  /\ logrec' = <<>>
  /\ history' = <<>>
  /\ UNCHANGED <<prog, BLOCKLIST, EVENTS, cp_vars>>
  /\ UNCHANGED ctrl_c

NextConcurrent ==
  \/ NextControl
  \/ \E p \in ConcurrentPackets : PingDropEnter(p)
  \/ PingDropRun
  \/ PingDropReturn

\* main() as started with no --block, with one address or with two
ConcurrentArgs ==
  {None, Some(join(<<S_A1>>, ",")), Some(join(<<S_A1, S_A2_padded>>, ","))}

InitConcurrent ==
  /\ InitControl
  /\ opt_block \in ConcurrentArgs

SpecConcurrent == InitConcurrent /\ [][NextConcurrent]_vars

(***************************************************************************)
(* security_monitor: main(), the three attached programs, the EVENTS map.  *)
(***************************************************************************)
\* the packets that reach xdp_firewall: TCP from 10.0.0.1 with either source
\* port, complete or one byte short of the TCP header
MonitorPackets ==
  [len : {EthHdr_LEN + Ipv4Hdr_LEN + TcpHdr_LEN - 1, EthHdr_LEN + Ipv4Hdr_LEN + TcpHdr_LEN},
   ether_type : {EtherType_Ipv4},
   proto : {IpProto_Tcp},
   src_addr : {Addr1},
   tot_len : {<<0, 84>>},
   source : Ports]

\* the processes that call connect() and execve(): ctx.pid()
Pids == {100, 200}

\* what happened: a packet arrived (type 1), a process called connect()
\* (type 2) or execve() (type 3)
Occurrence(type, p, pid) == [type |-> type, pkt |-> p, pid |-> pid]

\* socket_connect writing into the slot of the network events
socket_connect_key_1(pid, ev) == map_insert(ev, 1, EventData(2, pid, 0))

\* #[tracepoint] socket_connect: let _ = EVENTS.insert(&2, &EventData{2, pid, 0}, 0)
socket_connect(pid, ev) == map_insert(ev, 2, EventData(2, pid, 0))

\* #[tracepoint] handle_execve: let _ = EVENTS.insert(&3, &EventData{3, pid, 0}, 0)
handle_execve(pid, ev) == map_insert(ev, 3, EventData(3, pid, 0))

\* Ipv4Addr::from(u32): the four octets, most significant first
Ipv4Addr_from_u32(v) ==
  <<v \div 16777216, (v \div 65536) % 256, (v \div 256) % 256, v % 256>>

\* a line on stdout: println! of the start, of an event, of the exit
Line(tag, ip, n) == [tag |-> tag, ip |-> ip, n |-> n]
NoIp == <<0, 0, 0, 0>>

\* match event.event_type { 1 => [NET].., 2 => [SOCK].., 3 => [EXEC].., _ => {} }
event_lines(event) ==
  IF event.event_type = 1
  THEN <<Line("[NET] Ingress from IP, Port", Ipv4Addr_from_u32(event.data_one), event.data_two)>>
  ELSE IF event.event_type = 2
  THEN <<Line("[SOCK] Connection attempt by PID", NoIp, event.data_one)>>
  ELSE IF event.event_type = 3
  THEN <<Line("[EXEC] New process created by PID", NoIp, event.data_one)>>
  ELSE <<>>

\* if let Ok(event) = events.get(&id, 0) { match ... }
poll_id(id, ev) == IF id \in DOMAIN ev THEN event_lines(ev[id]) ELSE <<>>

InitMonitor ==
  /\ prog = "xdp_firewall"
  /\ BLOCKLIST = EmptyMap
  /\ EVENTS = EmptyMap
  /\ pkt = NoPkt
  /\ verdict = "none"
  /\ reads = {}
  /\ logrec = <<>>
  /\ pc = "load"
  /\ opt_block = None
  /\ opt_ip_file = None
  /\ tokens = <<>>
  /\ file = NotOpened
  /\ lines = <<>>
  /\ warnings = <<>>
  /\ stdout = <<>>
  /\ drain = "none"
  /\ attached = FALSE
  /\ sigint = "none"
  /\ errs = {}
  /\ fatal = "none"
  /\ exit_status = "running"
  /\ ctrl_c = NoCtrlC
  /\ history = <<>>

\* where main() stands before the load and attach of xdp_firewall, of
\* socket_connect and of handle_execve
AttachPc == <<"attach", "attach_connect", "attach_execve">>

\* the programs the kernel runs by now: xdp_firewall from its attach on
\* (attached), each tracepoint program from its own attach on; the exit of
\* the process detaches them all
ConnectAttached == attached /\ pc # "attach_connect"
ExecveAttached == attached /\ pc \notin {"attach_connect", "attach_execve"}

\* load()? and attach(..)? of one program: xdp_firewall, then
\* socket_connect, then handle_execve; a failure returns from main() with
\* the programs attached before it detached by the exit
MonAttach ==
  /\ \E i \in 1..3 :
       /\ pc = AttachPc[i]
       /\ \E r \in {"ok", "prog_load", "attach"} :
            IF r = "ok"
            THEN /\ pc' = IF i < 3 THEN AttachPc[i + 1] ELSE "events_map"
                 /\ attached' = TRUE
                 /\ UNCHANGED <<errs, fatal, exit_status>>
            ELSE ReturnErr(r)
  /\ UNCHANGED <<dp_vars, opt_block, opt_ip_file, tokens, file, lines,
                 warnings, stdout, drain, sigint, mon_vars>>

\* the EVENTS handle; println!("Monitoring active on ..."); time::interval(..)
MonitoringActive ==
  /\ pc = "events_map"
  /\ stdout' = Append(stdout, Line("Monitoring active", NoIp, 0))
  /\ pc' = "select"
  /\ UNCHANGED <<dp_vars, opt_block, opt_ip_file, tokens, file, lines,
                 warnings, drain, attached, sigint, errs, fatal, exit_status,
                 mon_vars>>

\* the timer may fire again: the lines of one more poll fit on stdout
TimerRuns == Len(stdout) + 3 <= MaxPrinted

\* tokio::select! at the top of an iteration creates interval.tick() and a
\* new signal::ctrl_c() future and polls them in random order.  Either the
\* tick is ready and wins, the ctrl_c future being dropped, polled or not; or
\* the tick is not ready, the first poll of the ctrl_c future installs the
\* SIGINT handler and registers a listener, and the task sleeps; or the
\* ctrl_c future is polled while no handler is installed and the handler
\* cannot be installed: the future completes with Err, which the pattern _
\* of its branch matches like Ok: println!("Exiting..."); break; Ok(())
MonSelect ==
  /\ pc = "select"
  /\ \/ /\ TimerRuns
        /\ pc' = "tick1"
        /\ \E polled \in BOOLEAN :
             ctrl_c' = [handler |-> ctrl_c.handler \/ polled, listener |-> "none"]
        /\ UNCHANGED <<stdout, attached, errs, exit_status>>
     \/ /\ pc' = "select_wait"
        /\ ctrl_c' = [handler |-> TRUE, listener |-> "registered"]
        /\ UNCHANGED <<stdout, attached, errs, exit_status>>
     \/ /\ ~ctrl_c.handler
        /\ stdout' = Append(stdout, Line("Exiting...", NoIp, 0))
        /\ errs' = errs \cup {"signal"}
        /\ pc' = "done"
        /\ exit_status' = "exit_0"
        /\ attached' = FALSE
        /\ UNCHANGED ctrl_c
  /\ UNCHANGED <<dp_vars, opt_block, opt_ip_file, tokens, file, lines,
                 warnings, drain, sigint, fatal, history>>

\* the tick completes and its branch is taken: the ctrl_c future of this
\* iteration is dropped, notified or not
MonTick ==
  /\ pc = "select_wait"
  /\ TimerRuns
  /\ pc' = "tick1"
  /\ ctrl_c' = [ctrl_c EXCEPT !.listener = "none"]
  /\ UNCHANGED <<dp_vars, opt_block, opt_ip_file, tokens, file, lines,
                 warnings, stdout, drain, attached, sigint, errs, fatal,
                 exit_status, history>>

PollPc == <<"tick1", "tick2", "tick3">>

\* a poll that takes the event out of its slot once it is printed
MonPoll_take ==
  /\ \E id \in 1..3 :
       /\ pc = PollPc[id]
       /\ stdout' = stdout \o poll_id(id, EVENTS)
       /\ EVENTS' = [k \in DOMAIN EVENTS \ {id} |-> EVENTS[k]]
       /\ pc' = IF id < 3 THEN PollPc[id + 1] ELSE "select"
  /\ UNCHANGED <<prog, BLOCKLIST, pkt, verdict, reads, logrec>>
  /\ UNCHANGED <<opt_block, opt_ip_file, tokens, file, lines,
                 warnings, drain, attached, sigint, errs, fatal, exit_status,
                 mon_vars>>

\* one iteration of: for id in 1..=3 { if let Ok(event) = events.get(&id, 0) ..
MonPoll ==
  /\ \E id \in 1..3 :
       /\ pc = PollPc[id]
       /\ stdout' = stdout \o poll_id(id, EVENTS)
       /\ pc' = IF id < 3 THEN PollPc[id + 1] ELSE "select"
  /\ UNCHANGED <<dp_vars, opt_block, opt_ip_file, tokens, file, lines,
                 warnings, drain, attached, sigint, errs, fatal, exit_status,
                 mon_vars>>

\* the ctrl_c branch: println!("Exiting..."); break; Ok(())
MonCtrlC ==
  /\ pc = "select_wait"
  /\ ctrl_c.listener = "notified"
  /\ stdout' = Append(stdout, Line("Exiting...", NoIp, 0))
  /\ pc' = "done"
  /\ exit_status' = "exit_0"
  /\ attached' = FALSE
  /\ ctrl_c' = [ctrl_c EXCEPT !.listener = "none"]
  /\ UNCHANGED <<dp_vars, opt_block, opt_ip_file, tokens, file, lines,
                 warnings, drain, sigint, errs, fatal, history>>

\* SIGINT is sent to the process: tokio's handler records it when it is
\* installed, the default action ends the process otherwise
MonSigint ==
  /\ exit_status = "running"
  /\ sigint = "none"
  /\ IF ctrl_c.handler
     THEN /\ sigint' = "pending"
          /\ UNCHANGED <<pc, exit_status, attached>>
     ELSE /\ sigint' = "default_action"
          /\ pc' = "done"
          /\ exit_status' = "killed"
          /\ attached' = FALSE
  /\ UNCHANGED <<dp_vars, opt_block, opt_ip_file, tokens, file, lines,
                 warnings, stdout, drain, errs, fatal, mon_vars>>

\* tokio's signal driver passes the recorded SIGINT on to the listeners
\* registered at that moment
MonBroadcast ==
  /\ exit_status = "running"
  /\ sigint = "pending"
  /\ sigint' = "broadcast"
  /\ ctrl_c' = [ctrl_c EXCEPT !.listener =
                  IF @ = "registered" THEN "notified" ELSE @]
  /\ UNCHANGED <<dp_vars, pc, opt_block, opt_ip_file, tokens, file, lines,
                 warnings, stdout, drain, attached, errs, fatal, exit_status,
                 history>>

\* a packet arrives on the interface xdp_firewall is attached to
NetworkPacket(p) ==
  /\ attached /\ pkt = NoPkt
  /\ Len(history) < MaxEvents
  /\ XdpFirewall(p)
  /\ history' = Append(history, Occurrence(1, p, 0))

\* a process enters connect(): the tracepoint runs socket_connect
SocketConnect(pid) ==
  /\ ConnectAttached
  /\ Len(history) < MaxEvents
  /\ EVENTS' = socket_connect(pid, EVENTS)
  /\ history' = Append(history, Occurrence(2, NoPkt, pid))
  /\ UNCHANGED <<prog, BLOCKLIST, pkt, verdict, reads, logrec, cp_vars, ctrl_c>>

\* a process enters execve(): the tracepoint runs handle_execve
HandleExecve(pid) ==
  /\ ExecveAttached
  /\ Len(history) < MaxEvents
  /\ EVENTS' = handle_execve(pid, EVENTS)
  /\ history' = Append(history, Occurrence(3, NoPkt, pid))
  /\ UNCHANGED <<prog, BLOCKLIST, pkt, verdict, reads, logrec, cp_vars, ctrl_c>>

NextMonitor ==
  \/ Load
  \/ LoggerInit
  \/ MonAttach
  \/ MonitoringActive
  \/ MonSelect
  \/ MonTick
  \/ MonPoll
  \/ MonCtrlC
  \/ MonSigint
  \/ MonBroadcast
  \/ DrainError
  \/ \E p \in MonitorPackets : NetworkPacket(p)
  \/ \E pid \in Pids : SocketConnect(pid)
  \/ \E pid \in Pids : HandleExecve(pid)
  \/ Returned

SpecMonitor == InitMonitor /\ [][NextMonitor]_vars

\* the tasks of the runtime are scheduled and the signal driver runs
SpecMonitorLive ==
  /\ SpecMonitor
  /\ WF_vars(MonSelect)
  /\ WF_vars(MonTick)
  /\ WF_vars(MonPoll)
  /\ WF_vars(MonCtrlC)
  /\ WF_vars(MonBroadcast)

(***************************************************************************)
(* Properties of the control plane, checked under SpecControl.             *)
(***************************************************************************)
\* the Blocklist key of the address a.b.c.d
KeyOf(a) == ((a[1] * 256 + a[2]) * 256 + a[3]) * 256 + a[4]

\* What each text of the model means, stated apart from the parser: the key
\* of "10.0.0.1" and of the padded 10.0.0.2, and the texts that are not addresses.
TextKey(t) ==
  IF t = S_A1 THEN {167772161}
  ELSE IF t \in {S_A2, S_A2_padded} THEN {167772162}
  ELSE IF t = S_A3 THEN {16777226}
  ELSE {}
TextInvalid(t) == t \in {S_not_an_ip, S_256}

\* the tokens of the --block argument
TokensOfArg ==
  [a \in BlockArgs |-> CHOOSE ts \in BlockTokenLists : join(ts, ",") = a]
ArgTokens == TokensOfArg[opt_block.val]
\* the tokens the loop has dealt with so far
TokensDone == SubSeq(ArgTokens, 1, Len(ArgTokens) - Len(tokens))
KeysOf(ts) == UNION {TextKey(ts[i]) : i \in 1..Len(ts)}
WarnedFrom(from) ==
  LET w == SelectSeq(warnings, LAMBDA x : x.from = from)
  IN [i \in 1..Len(w) |-> w[i].text]

\* the load of --block is under way, has ended, or was given up
BlockLoading == opt_block.some /\ pc = "block_loop"
BlockLoaded == opt_block.some /\ pc = "file"
BlockGivenUp == fatal = "block_insert"

\* C7 as claimed: for every --block argument, when its load has ended the
\* keys of the Blocklist are the tokens that parse as IPv4 after trimming.
C7_Claimed ==
  (BlockLoaded \/ BlockGivenUp) => DOMAIN BLOCKLIST = KeysOf(ArgTokens)

\* C7 as amended: the keys inserted are those of the valid tokens dealt with
\* so far, each with value 1, and the warnings are the invalid non-empty
\* tokens dealt with so far, one each and in order; the load is given up only
\* at a valid token whose address is new when the Blocklist is full, never
\* at an invalid one; otherwise it deals with every token.
C7_BlockLoad ==
  /\ (BlockLoading \/ BlockLoaded \/ BlockGivenUp) =>
       /\ DOMAIN BLOCKLIST = KeysOf(TokensDone)
       /\ \A k \in DOMAIN BLOCKLIST : BLOCKLIST[k] = 1
       /\ WarnedFrom("--block") = SelectSeq(TokensDone, TextInvalid)
  /\ BlockLoaded => TokensDone = ArgTokens
  /\ BlockGivenUp =>
       /\ tokens # <<>>
       /\ TextKey(Head(tokens)) # {}
       /\ TextKey(Head(tokens)) \cap DOMAIN BLOCKLIST = {}
       /\ Cardinality(DOMAIN BLOCKLIST) = MaxEntries

C7_Witness ==
  /\ BlockLoaded
  /\ ArgTokens = <<S_not_an_ip, S_A2_padded>>
  /\ DOMAIN BLOCKLIST = {167772162}
  /\ Len(warnings) = 1

\* C8 as claimed: once the file is open, every line is dealt with (skipped,
\* inserted, or warned about and skipped) and the control plane goes on to
\* wait for the signal: the load is never given up.
C8_Claimed ==
  file.exists => fatal \notin {"file_read", "file_insert"}

\* the errors after which main() returns Err
FatalErrors == {"load", "asyncfd", "prog_load", "attach", "block_insert",
                "file_open", "file_read", "file_insert", "signal"}

\* C9 as claimed: only a program load failure and an attach failure end the
\* process; after any other error it keeps running.
C9_Claimed ==
  exit_status = "exit_1" => errs \cap {"load", "prog_load", "attach"} # {}

\* C9 as amended: the process ends with an error exactly when it has met one
\* of: program load failure, log fd registration failure, attach failure, a
\* refused Blocklist insert, a file open or line read error, a failure to
\* wait for the signal.  A logger initialisation failure, an invalid token or
\* line, and a log-channel error are the ones after which it keeps running.
C9_FatalErrors ==
  /\ exit_status = "exit_1" <=> errs \cap FatalErrors # {}
  /\ exit_status = "exit_1" => (fatal \in FatalErrors /\ fatal \in errs)
  /\ exit_status # "exit_1" => fatal = "none"

C9_Witness ==
  /\ "logger_init" \in errs
  /\ WarnedFrom("--block") # <<>>
  /\ WarnedFrom("file") # <<>>
  /\ pc = "wait"
  /\ exit_status = "running"

\* C10: the exit status is 0 only after the control plane reached the wait
\* and SIGINT was then received, and then it is 0; after a failed attach and
\* after a failed open of the --ip-file it is not 0.
C10_ExitStatus ==
  /\ exit_status = "exit_0" =>
       /\ sigint = "handled"
       /\ stdout = <<"Waiting for Ctrl-C...", "Exiting...">>
       /\ errs \cap FatalErrors = {}
  /\ (pc = "done" /\ sigint = "handled") => exit_status = "exit_0"
  /\ "attach" \in errs => exit_status = "exit_1"
  /\ "file_open" \in errs => exit_status = "exit_1"

C10_Witness ==
  /\ exit_status = "exit_0"
  /\ file.exists
  /\ BLOCKLIST # EmptyMap

\* the keys of the valid addresses supplied through --block and the file
SuppliedKeys ==
  (IF opt_block.some THEN KeysOf(ArgTokens) ELSE {})
    \cup (IF file.exists THEN KeysOf(file.content) ELSE {})
\* the Blocklist has been populated: both loops have run to their end
Populated == pc \in {"ctrl_c", "await", "wait"}
\* the step is one iteration of the --block loop, of the --ip-file loop
BlockTokenStep ==
  pc = "block_loop" /\ exit_status' # "killed" /\ drain' = drain
FileLineStep ==
  pc = "file_loop" /\ exit_status' # "killed" /\ drain' = drain

\* C15: inserting an address that the Blocklist already holds succeeds, also
\* when the map is full, and leaves the Blocklist as it was: one entry for
\* the address, with the value just written (1), every other entry
\* unchanged; and once the Blocklist is populated its keys are the distinct
\* valid addresses supplied through --block and the file.
C15_Idempotent ==
  /\ [](Populated => /\ DOMAIN BLOCKLIST = SuppliedKeys
                     /\ \A k \in SuppliedKeys : BLOCKLIST[k] = 1)
  /\ [][(BlockTokenStep /\ TextKey(Head(tokens)) # {}
           /\ TextKey(Head(tokens)) \subseteq DOMAIN BLOCKLIST)
         => (BLOCKLIST' = BLOCKLIST /\ exit_status' = "running"
             /\ tokens' = Tail(tokens))]_vars
  /\ [][(FileLineStep /\ TextKey(Head(lines)) # {}
           /\ TextKey(Head(lines)) \subseteq DOMAIN BLOCKLIST)
         => (BLOCKLIST' = BLOCKLIST /\ exit_status' = "running"
             /\ lines' = Tail(lines))]_vars

\* 10.0.0.1 was supplied twice in --block and once more in the file, whose
\* insert met a full map
C15_Witness ==
  /\ pc = "wait"
  /\ opt_block.some /\ file.exists
  /\ ArgTokens = <<S_A1, S_A1>>
  /\ file.content = <<S_A3, S_A1>>
  /\ DOMAIN BLOCKLIST = {167772161, 16777226}

\* C11 as claimed: an error on the log channel is reported as a warning (and
\* stops only the drain loop).
C11_Claimed ==
  "log_channel" \in errs =>
    \E i \in 1..Len(warnings) : warnings[i].from = "log_channel"

\* C14: in every reachable state of the control plane every entry of the
\* Blocklist has value 1.
C14_ValueOne == \A k \in DOMAIN BLOCKLIST : BLOCKLIST[k] = 1

C14_Witness ==
  /\ pc = "wait"
  /\ opt_block.some /\ file.exists
  /\ DOMAIN BLOCKLIST = {167772161, 16777226}
  /\ BLOCKLIST[167772161] = 1 /\ BLOCKLIST[16777226] = 1

\* the Blocklist holds as many keys as the map has room for
Full == Cardinality(DOMAIN BLOCKLIST) >= MaxEntries
\* the text is a valid address that is not yet a key of the Blocklist
NewKey(t) == \E k \in TextKey(t) : k \notin DOMAIN BLOCKLIST

\* C27: the Blocklist never holds more keys than the map has room for
\* (MaxEntries, standing for the 1024 of the source); the insert of a new
\* address into a full Blocklist fails, and main() then returns that error:
\* it stops loading, the Blocklist stays as it was, no warning is written,
\* and the process exits with status 1.
C27_FullIsFatal ==
  /\ [](Cardinality(DOMAIN BLOCKLIST) <= MaxEntries)
  /\ [][(BlockTokenStep /\ Full /\ NewKey(Head(tokens)))
         => /\ fatal' = "block_insert" /\ exit_status' = "exit_1"
            /\ pc' = "done" /\ tokens' = tokens
            /\ BLOCKLIST' = BLOCKLIST /\ warnings' = warnings]_vars
  /\ [][(FileLineStep /\ Full /\ NewKey(Head(lines)))
         => /\ fatal' = "file_insert" /\ exit_status' = "exit_1"
            /\ pc' = "done" /\ lines' = lines
            /\ BLOCKLIST' = BLOCKLIST /\ warnings' = warnings]_vars
  /\ [](fatal \in {"block_insert", "file_insert"} => (Full /\ exit_status = "exit_1"))

\* the two addresses of --block fill the map; the first line of the file is
\* a third address and main() has returned on its insert
C27_Witness ==
  /\ fatal = "file_insert" /\ exit_status = "exit_1"
  /\ opt_block.some /\ ArgTokens = <<S_A1, S_A2_padded>>
  /\ file.exists /\ lines = <<S_A3, S_A1>>
  /\ DOMAIN BLOCKLIST = {167772161, 167772162}
  /\ warnings = <<>>

(***************************************************************************)
(* Properties of ping-drop as a whole, checked under SpecSystem.           *)
(***************************************************************************)
\* the step is the classification of a packet
Classified == pkt = NoPkt /\ pkt' # NoPkt
\* the verdict of ping_drop by its specification: ABORTED for a truncated
\* packet, PASS for a non-IPv4 one, DROP for ICMP from a key of the
\* Blocklist, PASS otherwise
ExpectedVerdict(p, bl) ==
  IF p.len < 14 THEN "XDP_ABORTED"
  ELSE IF p.ether_type # 2048 THEN "XDP_PASS"
  ELSE IF p.len < 34 THEN "XDP_ABORTED"
  ELSE IF p.proto = 1 /\ ((p.src_addr[1] * 256 + p.src_addr[2]) * 256
                           + p.src_addr[3]) * 256 + p.src_addr[4] \in DOMAIN bl
       THEN "XDP_DROP"
  ELSE "XDP_PASS"

\* C16: when EbpfLogger::init fails the control plane writes a warning and
\* goes on to attach (no drain task is spawned, main() does not return);
\* from then on it attaches, populates and waits as otherwise, and every
\* verdict of ping_drop is the one its specification gives from the packet
\* and the Blocklist alone, with or without a working logger.
C16_LoggerOptional ==
  /\ []("logger_init" \in errs =>
          /\ \E i \in 1..Len(warnings) : warnings[i].from = "logger"
          /\ drain = "none"
          /\ fatal # "logger_init")
  /\ [][(pc = "logger" /\ "logger_init" \in errs')
         => (pc' = "attach" /\ exit_status' = "running")]_vars
  /\ [][Classified => verdict' = ExpectedVerdict(pkt', BLOCKLIST)]_vars

C16_Witness ==
  /\ "logger_init" \in errs
  /\ pc = "wait" /\ attached
  /\ opt_block.some /\ file.exists /\ file.content # <<>>
  /\ pkt # NoPkt /\ pkt.len = 34 /\ pkt.proto = 1
  /\ verdict = "XDP_DROP"

\* the address each text of the model denotes, stated apart from the parser
TextAddr(t) ==
  IF t = S_A1 THEN {<<10, 0, 0, 1>>}
  ELSE IF t \in {S_A2, S_A2_padded} THEN {<<10, 0, 0, 2>>}
  ELSE IF t = S_A3 THEN {<<1, 0, 0, 10>>}
  ELSE {}
\* the texts the two loops have dealt with so far
TextsDone ==
  (IF opt_block.some /\ pc \notin {"load", "logger", "attach", "block"}
   THEN Range(TokensDone) ELSE {})
  \cup (IF file.exists
        THEN Range(SubSeq(file.content, 1, Len(file.content) - Len(lines)))
        ELSE {})
\* the addresses inserted so far
AddrsInserted == UNION {TextAddr(t) : t \in TextsDone}
\* the packet of this step has a complete IPv4 header and is ICMP
IcmpClassified ==
  Classified /\ pkt'.len >= 34 /\ pkt'.ether_type = 2048 /\ pkt'.proto = 1

\* C19: the key inserted for the literal of an address a.b.c.d is the key
\* ping_drop computes from a packet whose source bytes are a, b, c, d, and
\* no other: at any moment an ICMP packet is dropped exactly when its source
\* address is one of the addresses whose literals were inserted so far.
C19_KeysAgree ==
  [][IcmpClassified => (verdict' = "XDP_DROP" <=> pkt'.src_addr \in AddrsInserted)]_vars

\* 10.0.0.1 is inserted; the packet from 1.0.0.10, the same bytes in
\* reverse, is not matched
C19_Witness ==
  /\ AddrsInserted = {<<10, 0, 0, 1>>}
  /\ pkt # NoPkt /\ pkt.len = 34 /\ pkt.proto = 1
  /\ pkt.src_addr = <<1, 0, 0, 10>>
  /\ verdict = "XDP_PASS"

\* C20: from the end of the population until the control plane exits,
\* ping_drop is attached and every complete IPv4/ICMP packet from a valid
\* address supplied through --block or the file is dropped; after the exit
\* nothing is classified.
C20_SuppliedDropped ==
  /\ [][(IcmpClassified /\ Populated /\ pkt'.src_addr \in UNION
           {TextAddr(t) : t \in (IF opt_block.some THEN Range(ArgTokens) ELSE {})
                              \cup (IF file.exists THEN Range(file.content) ELSE {})})
         => verdict' = "XDP_DROP"]_vars
  /\ [](Populated => attached)
  /\ [][Classified => exit_status = "running"]_vars

C20_Witness ==
  /\ pc = "wait"
  /\ opt_block.some /\ ArgTokens = <<S_not_an_ip, S_A2_padded>>
  /\ file.exists /\ file.content = <<S_256, S_A3>>
  /\ pkt # NoPkt /\ pkt.len = 34 /\ pkt.proto = 1
  /\ pkt.src_addr = <<1, 0, 0, 10>>
  /\ verdict = "XDP_DROP"

(***************************************************************************)
(* Properties of security_monitor, checked under SpecMonitor and           *)
(* SpecMonitorLive, and of the wait of ping-drop under SpecControlLive.    *)
(***************************************************************************)
\* main() is in its runtime loop
InLoop == pc \in {"select", "select_wait", "tick1", "tick2", "tick3"}

\* C12 as claimed, for security_monitor: once SIGINT has been delivered to
\* the process while main() is in its loop, the process eventually exits.
C12_Claimed == (InLoop /\ sigint = "pending") ~> (exit_status # "running")

\* C12, the part about ping-drop (under SpecControlLive): once SIGINT has
\* been delivered during the wait, the process eventually exits with 0.
C12_PingDropExits ==
  (pc = "wait" /\ sigint = "handled") ~> (exit_status = "exit_0")

\* the occurrence is an event: a system call, or an IPv4 packet with a
\* complete IPv4 header and a complete TCP or UDP header behind it
IsEvent(o) ==
  \/ o.type \in {2, 3}
  \/ /\ o.type = 1
     /\ o.pkt.ether_type = 2048
     /\ o.pkt.len >= 34 + (IF o.pkt.proto = 6 THEN 20
                           ELSE IF o.pkt.proto = 17 THEN 8 ELSE 0)
\* the source port of a packet, 0 when it is neither TCP nor UDP
PortOf(p) == IF p.proto \in {6, 17} THEN p.source[1] * 256 + p.source[2] ELSE 0
\* the events of type k so far, oldest first
EventsOf(k) == SelectSeq(history, LAMBDA o : o.type = k /\ IsEvent(o))
\* the most recent of them
LatestOf(k) == EventsOf(k)[Len(EventsOf(k))]
\* what the slot of an event holds, and the line that reports it
SlotOf(o) ==
  IF o.type = 1
  THEN [event_type |-> 1, data_one |-> KeyOf(o.pkt.src_addr), data_two |-> PortOf(o.pkt)]
  ELSE [event_type |-> o.type, data_one |-> o.pid, data_two |-> 0]
LineOf(o) ==
  IF o.type = 1
  THEN [tag |-> "[NET] Ingress from IP, Port", ip |-> o.pkt.src_addr, n |-> PortOf(o.pkt)]
  ELSE IF o.type = 2
  THEN [tag |-> "[SOCK] Connection attempt by PID", ip |-> <<0, 0, 0, 0>>, n |-> o.pid]
  ELSE [tag |-> "[EXEC] New process created by PID", ip |-> <<0, 0, 0, 0>>, n |-> o.pid]

\* C17: EVENTS has one slot per event type, the slot of type k holds the
\* most recent event of type k (none before the first), and a poll of slot
\* k prints that event and no other: an event overwritten before a poll is
\* never reported.
C17_LastWriteWins ==
  /\ [](DOMAIN EVENTS \subseteq 1..3)
  /\ [](\A k \in 1..3 :
          IF EventsOf(k) = <<>> THEN k \notin DOMAIN EVENTS
          ELSE k \in DOMAIN EVENTS /\ EVENTS[k] = SlotOf(LatestOf(k)))
  /\ [][\A k \in 1..3 :
          (pc = PollPc[k] /\ pc' \notin {pc, "done"}) =>
            stdout' = stdout \o (IF EventsOf(k) = <<>> THEN <<>>
                                 ELSE <<LineOf(LatestOf(k))>>)]_vars

\* two packets with different source ports arrived before a poll: the
\* second is reported, the first is not
C17_Witness ==
  /\ Len(history) = 2
  /\ history[1].type = 1 /\ IsEvent(history[1])
  /\ history[2].type = 1 /\ IsEvent(history[2])
  /\ history[1].pkt.source # history[2].pkt.source
  /\ \E i \in 1..Len(stdout) : stdout[i] = LineOf(history[2])
  /\ \A i \in 1..Len(stdout) : stdout[i] # LineOf(history[1])

\* the step is the poll of slot k
PollStep(k) == pc = PollPc[k] /\ pc' \notin {pc, "done"}
\* the lines of the three event types
TagOf(k) ==
  CASE k = 1 -> "[NET] Ingress from IP, Port"
    [] k = 2 -> "[SOCK] Connection attempt by PID"
    [] k = 3 -> "[EXEC] New process created by PID"

\* C28: no step takes an entry out of EVENTS, the poll least of all; from
\* the first event of type k on, every poll of slot k prints one line of
\* type k, whether or not an event of that type occurred since the poll
\* before; a poll goes through the slots 1, 2, 3 in this order and prints at
\* most one line for each; and nothing else is printed while the loop runs
\* but the line of its exit.
C28_NeverCleared ==
  /\ [][\A k \in DOMAIN EVENTS : k \in DOMAIN EVENTS']_vars
  /\ [][\A k \in 1..3 :
          PollStep(k) =>
            /\ EVENTS' = EVENTS
            /\ pc' = IF k < 3 THEN PollPc[k + 1] ELSE "select"
            /\ IF EventsOf(k) # <<>>
               THEN /\ Len(stdout') = Len(stdout) + 1
                    /\ SubSeq(stdout', 1, Len(stdout)) = stdout
                    /\ stdout'[Len(stdout')].tag = TagOf(k)
               ELSE stdout' = stdout]_vars
  /\ [][stdout' # stdout
         => pc \in {"events_map", "select", "tick1", "tick2", "tick3", "select_wait"}]_vars

\* one connect() and nothing else has happened, and its line stands twice
\* on stdout
C28_Witness ==
  /\ Len(history) = 1 /\ history[1].type = 2
  /\ \E i, j \in 1..Len(stdout) :
       /\ i < j
       /\ stdout[i] = LineOf(history[1])
       /\ stdout[j] = LineOf(history[1])

\* what the slot j of a map holds: its entry, or nothing
Entry(ev, j) == IF j \in DOMAIN ev THEN <<ev[j]>> ELSE <<>>
\* the event of this step, when the step is one of the three programs
Latest == history'[Len(history')]

\* C29: EVENTS has keys among 1, 2, 3 only and the entry under key k has
\* event_type k; and a run of one of the three programs, in whatever order
\* they follow one another, leaves the slots of the other two types as they
\* were.
C29_SlotsApart ==
  /\ [](DOMAIN EVENTS \subseteq {1, 2, 3})
  /\ [](\A k \in DOMAIN EVENTS : EVENTS[k].event_type = k)
  /\ [][history' # history
         => \A j \in {1, 2, 3} \ {Latest.type} :
              Entry(EVENTS', j) = Entry(EVENTS, j)]_vars
  /\ [][EVENTS' # EVENTS => history' # history]_vars

\* a packet, then a connect by 200: the slot of the packet is as the packet
\* left it, the slot of the execve events is still empty
C29_Witness ==
  /\ Len(history) = 2
  /\ history[1].type = 1 /\ IsEvent(history[1]) /\ history[2].type = 2
  /\ DOMAIN EVENTS = {1, 2}
  /\ EVENTS[1] = SlotOf(history[1])
  /\ EVENTS[2] = [event_type |-> 2, data_one |-> 200, data_two |-> 0]

(***************************************************************************)
(* Properties of the classifiers, checked under SpecClassifier.            *)
(***************************************************************************)
ByPingDrop == prog = "ping_drop" /\ pkt # NoPkt
ByXdpFirewall == prog = "xdp_firewall" /\ pkt # NoPkt
\* complete Ethernet header; complete Ethernet and fixed IPv4 header
HasEth == pkt.len >= 14
HasIpv4 == pkt.len >= 34 /\ pkt.ether_type = 2048
SrcBlocked == KeyOf(pkt.src_addr) \in DOMAIN BLOCKLIST

\* C1: a complete IPv4/ICMP packet (at least 34 bytes) whose source address
\* is a key of the Blocklist at the lookup gets the verdict DROP.
C1_BlockedIcmpDropped ==
  (ByPingDrop /\ HasIpv4 /\ pkt.proto = 1 /\ SrcBlocked) => verdict = XDP_DROP

C1_Witness ==
  /\ ByPingDrop /\ HasIpv4 /\ pkt.len = 34 /\ pkt.proto = 1 /\ SrcBlocked
  /\ verdict = XDP_DROP

\* C2: a complete IPv4 packet whose protocol is not ICMP gets the verdict
\* PASS, also when its source address is a key of the Blocklist.
C2_NonIcmpPassed ==
  (ByPingDrop /\ HasIpv4 /\ pkt.proto # 1) => verdict = XDP_PASS

C2_Witness ==
  /\ ByPingDrop /\ HasIpv4 /\ pkt.proto = 6 /\ SrcBlocked
  /\ verdict = XDP_PASS

\* C3: a complete IPv4 packet whose source address is not a key of the
\* Blocklist gets the verdict PASS, whatever its protocol and total length
\* (also an ICMP packet longer than LARGE_PACKET_THRESHOLD).
C3_UnlistedPassed ==
  (ByPingDrop /\ HasIpv4 /\ ~SrcBlocked) => verdict = XDP_PASS

C3_Witness ==
  /\ ByPingDrop /\ HasIpv4 /\ ~SrcBlocked /\ BLOCKLIST # EmptyMap
  /\ pkt.proto = 1 /\ pkt.tot_len[1] * 256 + pkt.tot_len[2] > 512
  /\ verdict = XDP_PASS

\* C4: a frame with a complete Ethernet header whose EtherType is not IPv4
\* gets the verdict PASS whatever the Blocklist holds and whatever follows
\* the Ethernet header; nothing after that header is read and the Blocklist
\* lookup (which precedes the log record) is not made.
C4_NonIpv4Passed ==
  (ByPingDrop /\ HasEth /\ pkt.ether_type # 2048)
    => (verdict = XDP_PASS /\ reads = {<<0, 14>>} /\ logrec = <<>>)

C4_Witness ==
  /\ ByPingDrop /\ HasEth /\ pkt.len < 34 /\ pkt.ether_type = 2054
  /\ pkt.proto = 1 /\ SrcBlocked
  /\ verdict = XDP_PASS

\* C5: the verdict is ABORTED exactly when a bounds check fails: the packet
\* is shorter than the Ethernet header, or its EtherType is IPv4 and it is
\* shorter than the Ethernet header plus the fixed IPv4 header.
C5_AbortedIffTruncated ==
  ByPingDrop =>
    (verdict = XDP_ABORTED
       <=> (pkt.len < 14 \/ (pkt.ether_type = 2048 /\ pkt.len < 34)))

C5_Witness ==
  /\ ByPingDrop /\ pkt.len = 33 /\ pkt.ether_type = 2048
  /\ pkt.proto = 1 /\ SrcBlocked
  /\ verdict = XDP_ABORTED

\* a header that xdp_firewall parses does not fit in the packet: Ethernet,
\* IPv4, or the TCP or UDP header behind it
Truncated ==
  \/ pkt.len < 14
  \/ /\ pkt.ether_type = 2048
     /\ \/ pkt.len < 34
        \/ pkt.proto = 6 /\ pkt.len < 54
        \/ pkt.proto = 17 /\ pkt.len < 42

\* the packet is IPv4 with complete Ethernet and IPv4 headers and, when it
\* is TCP or UDP, a complete header of that protocol at offset 34
RecordsEvent(p) ==
  /\ p.ether_type = 2048
  /\ p.len >= (IF p.proto = 6 THEN 54 ELSE IF p.proto = 17 THEN 42 ELSE 34)
\* the Network event of a packet
NetworkEvent(p) ==
  [event_type |-> 1,
   data_one |-> KeyOf(p.src_addr),
   data_two |-> IF p.proto \in {6, 17} THEN p.source[1] * 256 + p.source[2] ELSE 0]

\* C30: a run of xdp_firewall writes the Network event of its packet under
\* key 1 exactly when the packet is IPv4 with complete Ethernet and IPv4
\* headers and, for TCP and UDP, a complete transport header at offset 34;
\* data_one is the source address, data_two the source port for TCP and UDP
\* and 0 for every other protocol; for every other packet EVENTS stays as it
\* was.
C30_NetworkEvent ==
  [][(prog = "xdp_firewall" /\ Classified)
      => EVENTS' = IF RecordsEvent(pkt')
                   THEN [k \in DOMAIN EVENTS \cup {1} |->
                           IF k = 1 THEN NetworkEvent(pkt') ELSE EVENTS[k]]
                   ELSE EVENTS]_vars

\* a UDP packet of 42 bytes from 10.0.0.2, source port 53
C30_Witness ==
  /\ ByXdpFirewall /\ pkt.ether_type = 2048 /\ pkt.proto = 17 /\ pkt.len = 42
  /\ pkt.src_addr = <<10, 0, 0, 2>> /\ pkt.source = <<0, 53>>
  /\ EVENTS = [k \in {1} |-> [event_type |-> 1, data_one |-> 167772162,
                              data_two |-> 53]]

\* C18 as claimed: xdp_firewall returns ABORTED for every packet with a
\* truncated Ethernet, IPv4, TCP or UDP header.
C18_Claimed == (ByXdpFirewall /\ Truncated) => verdict = XDP_ABORTED

\* C6: in ping_drop and in xdp_firewall every header that is read lies
\* inside the packet buffer: offset + size <= packet length, for every
\* packet length from 0 on.
C6_ReadsInBounds ==
  (ByPingDrop \/ ByXdpFirewall) =>
    \A r \in reads : r[1] >= 0 /\ r[1] + r[2] <= pkt.len

C6_Witness ==
  /\ ByXdpFirewall /\ pkt.len = 54 /\ pkt.proto = 6
  /\ reads = {<<0, 14>>, <<14, 20>>, <<34, 20>>}

\* C25: ping_drop emits one log record, and only one, for a packet that is
\* IPv4 with complete Ethernet and IPv4 headers: the record carries the
\* source address, the protocol and the total length of that packet, and
\* as ACTION the verdict that is returned.  For a packet that returns before
\* the lookup (too short, or not IPv4) it emits none.
C25_OneRecord ==
  ByPingDrop =>
    IF HasIpv4
    THEN logrec = << [src |-> KeyOf(pkt.src_addr),
                      proto |-> pkt.proto,
                      len |-> pkt.tot_len[1] * 256 + pkt.tot_len[2],
                      action |-> verdict] >>
    ELSE logrec = <<>>

\* TCP from a blocked address, total length 1000: the record says PASS
C25_Witness ==
  /\ ByPingDrop /\ HasIpv4 /\ SrcBlocked
  /\ pkt.proto = 6 /\ pkt.src_addr = <<10, 0, 0, 2>> /\ pkt.tot_len = <<3, 232>>
  /\ verdict = XDP_PASS
  /\ logrec = << [src |-> 167772162, proto |-> 6, len |-> 1000,
                  action |-> "XDP_PASS"] >>

\* the packets that agree with p in length, EtherType, source address and
\* protocol; the maps with the keys of bl
SameFields(p) ==
  {[p EXCEPT !.tot_len = t, !.source = s] : t \in TotLens, s \in Ports}
SameKeys(bl) == [DOMAIN bl -> MapValues]

\* C26 (under SpecLookup): the verdict is a function of the packet's length,
\* EtherType, source address and protocol and of the set of keys of the
\* Blocklist: whatever was classified before and whatever has become of the
\* drain task, the verdict of a packet is the one ping_drop gives to every
\* packet that agrees with it in these four fields, and the one it gives
\* under every map with the same keys (the two together, over every packet
\* and every map, give any change of both at once).
C26_VerdictDependsOn ==
  ByPingDrop =>
    /\ \A q \in SameFields(pkt) : ping_drop(q, BLOCKLIST).ret = verdict
    /\ \A bl \in SameKeys(BLOCKLIST) : ping_drop(pkt, bl).ret = verdict

\* an ICMP packet from a key whose value is 0, classified with no drain
\* task: dropped like the same packet under a map of ones
C26_Witness ==
  /\ ByPingDrop /\ HasIpv4 /\ pkt.proto = 1 /\ SrcBlocked
  /\ BLOCKLIST[KeyOf(pkt.src_addr)] = 0
  /\ Cardinality(DOMAIN BLOCKLIST) = 2
  /\ drain = "none"
  /\ verdict = XDP_DROP

(***************************************************************************)
(* The order of the startup of ping-drop, checked under SpecSystem.        *)
(***************************************************************************)
\* the steps main() can take next from each of its positions, by the text
\* of main(); from every position it can also end
NextSteps(p) ==
  CASE p = "load" -> {"logger"}
    [] p = "logger" -> {"attach"}
    [] p = "attach" -> {"block"}
    [] p = "block" -> {"block_loop", "file"}
    [] p = "block_loop" -> {"block_loop", "file"}
    [] p = "file" -> {"file_loop", "ctrl_c"}
    [] p = "file_loop" -> {"file_loop", "ctrl_c"}
    [] p = "ctrl_c" -> {"await"}
    [] p = "await" -> {"wait"}
    [] p = "wait" -> {"wait"}
    [] OTHER -> {}

\* C21 as claimed, its last consequence: no packet is classified before the
\* drain task exists.
C21_Claimed == pkt # NoPkt => drain # "none"

\* C21: main() performs its startup steps in one fixed order: load, logger
\* (where the drain task is spawned when the logger initialised), attach,
\* the --block entries, the file and its entries, then the wait.  The
\* Blocklist is empty at the attach and is written only while the program
\* is attached; the file is opened when every --block token has been dealt
\* with and every valid one is in the Blocklist; a packet is classified only
\* while the program is attached, and then the drain task has been spawned
\* unless EbpfLogger::init failed, in which case there is none at all.
C21_StartupOrder ==
  /\ [][pc' # pc => pc' \in NextSteps(pc) \cup {"done"}]_vars
  /\ [][(drain = "none" /\ drain' # "none") => (pc = "logger" /\ pc' = "attach")]_vars
  /\ [][(~attached /\ attached')
         => (pc = "attach" /\ pc' = "block" /\ BLOCKLIST = EmptyMap)]_vars
  /\ [][BLOCKLIST' # BLOCKLIST
         => (attached /\ pc \in {"block_loop", "file_loop"})]_vars
  /\ [][file' # file
         => /\ pc = "file" /\ tokens = <<>>
            /\ opt_block.some => KeysOf(ArgTokens) \subseteq DOMAIN BLOCKLIST]_vars
  /\ [][Classified
         => /\ attached
            /\ drain = "none" <=> "logger_init" \in errs]_vars

\* a packet from 10.0.0.2 is passed while the padded 10.0.0.2 is still to be
\* inserted and 10.0.0.1 already is: the classifier runs against a partial
\* Blocklist
C21_Witness ==
  /\ pc = "block_loop" /\ attached /\ drain = "running"
  /\ ArgTokens = <<S_A1, S_A2_padded>> /\ tokens = <<S_A2_padded>>
  /\ DOMAIN BLOCKLIST = {167772161}
  /\ pkt # NoPkt /\ pkt.len = 34 /\ pkt.proto = 1
  /\ pkt.src_addr = <<10, 0, 0, 2>>
  /\ verdict = "XDP_PASS"

(***************************************************************************)
(* Classifications concurrent with the population, checked under           *)
(* SpecConcurrent.                                                         *)
(***************************************************************************)
\* the classification in flight has its verdict
Decided == pkt # NoPkt /\ verdict # "none"
\* the Blocklist as it was when the classification in flight started
AtStart == history[1].bl

\* C22: a classification that runs while main() inserts returns the verdict
\* of its packet under the Blocklist as it was at some moment between its
\* start and its end.  Entries are only added, so that is the verdict under
\* the Blocklist at its start or the one under the Blocklist at its end (or
\* at any moment after the lookup).  The verdict, once taken, is not
\* revised by a later insertion (one lookup), and every entry the lookup can
\* meet is whole: its value is the 1 that was inserted.
C22_PreOrPost ==
  /\ [](Decided => verdict \in {ExpectedVerdict(pkt, AtStart),
                                ExpectedVerdict(pkt, BLOCKLIST)})
  /\ [][(Decided /\ pkt' = pkt) => verdict' = verdict]_vars
  /\ [](\A k \in DOMAIN BLOCKLIST : BLOCKLIST[k] = 1)

\* a packet from 10.0.0.1 entered before 10.0.0.1 was inserted is passed
\* although the Blocklist holds 10.0.0.1 by now: the lookup came first
C22_Witness ==
  /\ Decided /\ pkt.len = 34 /\ pkt.proto = 1
  /\ pkt.src_addr = <<10, 0, 0, 1>>
  /\ 167772161 \notin DOMAIN AtStart
  /\ 167772161 \in DOMAIN BLOCKLIST
  /\ verdict = "XDP_PASS"

\* the step is the run of ping_drop on the packet in flight
RunStep == pkt # NoPkt /\ verdict = "none" /\ verdict' # "none"

\* C23: the run of ping_drop leaves the Blocklist as it was, whatever the
\* verdict; the packet is, from the start of its classification to the end,
\* the packet that arrived; and every change of the Blocklist is a step of
\* one of the two population loops of main(), which touches neither the
\* packet in flight nor its verdict.
C23_ReadOnly ==
  /\ [][RunStep => (BLOCKLIST' = BLOCKLIST /\ pkt' = pkt)]_vars
  /\ [](pkt # NoPkt => pkt = history[1].pkt)
  /\ [][BLOCKLIST' # BLOCKLIST
         => /\ pc \in {"block_loop", "file_loop"}
            /\ pkt' = pkt /\ verdict' = verdict]_vars

\* a packet from 10.0.0.1 has been dropped and the Blocklist is as it was
\* when the packet arrived
C23_Witness ==
  /\ Decided /\ verdict = "XDP_DROP"
  /\ pkt = history[1].pkt /\ pkt.src_addr = <<10, 0, 0, 1>>
  /\ BLOCKLIST = AtStart
  /\ DOMAIN BLOCKLIST = {167772161, 167772162}

(***************************************************************************)
(* The lifetime of the entries, checked under SpecSystem.                  *)
(***************************************************************************)
\* C24: no step removes an entry of the Blocklist or changes its value: an
\* address, once inserted, stays for as long as the control plane runs (and
\* the map with it); and once the population has ended, while main() waits
\* for the signal and when it has returned, the Blocklist is not written.
C24_EntriesStay ==
  /\ [][\A k \in DOMAIN BLOCKLIST :
          k \in DOMAIN BLOCKLIST' /\ BLOCKLIST'[k] = BLOCKLIST[k]]_vars
  /\ [][(Populated \/ pc = "done") => BLOCKLIST' = BLOCKLIST]_vars

\* main() waits, SIGINT has arrived, and both addresses inserted at startup
\* are in the Blocklist: a packet from the first is dropped
C24_Witness ==
  /\ pc = "wait" /\ sigint = "handled"
  /\ opt_block.some /\ ArgTokens = <<S_A1>> /\ file.exists /\ file.content = <<S_A3>>
  /\ DOMAIN BLOCKLIST = {167772161, 16777226}
  /\ pkt # NoPkt /\ pkt.src_addr = <<10, 0, 0, 1>> /\ verdict = "XDP_DROP"

====
